---- MODULE Spec2Model ----
(***************************************************************************)
(* Room-scoped chat server (socket.io) and its single-document store.      *)
(*                                                                         *)
(* server.js   = src/unnamed/part_003 (lines 1-489)                        *)
(* storage.js  = src/server/utils/storage.js                               *)
(* socket.js   = src/unnamed/part_001 (client hook)                        *)
(*                                                                         *)
(* Every socket event handler runs to completion (one action).  A store    *)
(* operation is asynchronous: it suspends at its file read and at its file *)
(* write, so it is two further actions (StoreRead, StoreWrite); whatever   *)
(* follows an await without further I/O (the mutation of the document      *)
(* after the read, the .then/.catch of the handler after the write) runs   *)
(* in the same turn of the event loop and belongs to that action.          *)
(***************************************************************************)
EXTENDS Integers, Sequences, FiniteSets, TLC

VARIABLES
  sock,            \* socket id -> "new" | "open" | "rejected" | "closed"
  users,           \* server.js `users`: socket id -> {username, id, room}
  rooms,           \* server.js `rooms`: room name -> member socket ids
  sio,             \* socket.io adapter of /chat: socket id -> rooms joined
  typingUsers,     \* server.js `typingUsers` (keys; the value is the username)
  messages,        \* server.js in-memory `messages`
  availableRooms,  \* server.js `availableRooms`
  file,            \* content of data/storage.json
  DEFAULT,         \* storage.js `DEFAULT` (its arrays are shared by {...DEFAULT})
  ops,             \* store operations in flight
  now,             \* the clock read by Date.now() / new Date()
  out,             \* events emitted by the last step, in emission order
  nops,            \* number of store operations started so far
  faults,          \* number of I/O failures so far
  sent,            \* history: op numbers whose message was emitted to anyone
  written,         \* history: op numbers whose store write succeeded
  failed           \* history: op numbers whose store operation threw

vars == <<sock, users, rooms, sio, typingUsers, messages, availableRooms,
          file, DEFAULT, ops, now, out, nops, faults, sent, written, failed>>

----------------------------------------------------------------------------
(* Bounds of the model *)

\* Spec: the message pipeline with two connections
MaxOps == 2
MaxInFlight == 2
MaxFaults == 1
MaxClock == 2

\* SpecFaults: one sender and an unreliable disk
FaultOps == 2
FaultInFlight == 2
FaultFaults == 3
FaultClock == 2

\* SpecHistory: sends and history queries that overlap, a reliable disk
HistOps == 3
HistInFlight == 2
HistClock == 2

\* SpecCap: a store that starts almost full
CapOps == 3
CapInFlight == 2
CapTicks == 2

\* the bounds of SpecReact and SpecReceipts
StoredMessages == 2
ReactOps == 3
ReactInFlight == 2
ReceiptOps == 3
ReceiptInFlight == 2
ReceiptTicks == 2

\* the bounds of SpecQuery
QueryOps == 2
QueryInFlight == 2
PageSize == 2

\* the bounds of SpecTyping
TypingOps == 1
TypingInFlight == 1

\* the bounds of SpecFrame
FrameOps == 2
FrameInFlight == 2

\* the bounds of SpecValidation
ValidOps == 2
ValidInFlight == 2

\* the bounds of SpecQueryFaults
QFaultOps == 2
QFaultInFlight == 2
QFaultFaults == 2

\* the bounds of SpecLive
LiveOps == 2
LiveInFlight == 2
LiveFaults == 1

\* the bounds of SpecRace
RaceOps == 2
RaceInFlight == 2

\* the bounds of SpecStore
StoreOps == 3
StoreInFlight == 2

\* the bounds of SpecUnknown
UnknownOps == 2
UnknownInFlight == 2

\* the bounds of SpecDrop
DropOps == 2
DropInFlight == 2

\* the bounds of SpecPrivate
PrivOps == 2
PrivInFlight == 2
PrivClock == 2

(* Program constants *)

CAP == 100

Conn == {"c1", "c2"}
RoomNames == {"general", "dev"}
Bodies == {<<"H", "i">>}
Reactions == {"+1", "ok"}

IoNamespace == "/"
ChatNamespace == "/chat"
ClientNamespace == "/chat"

\* socket.username, set by the middleware from the verified token
JwtUsername(c) == IF c = "c1" THEN <<"A", "l">> ELSE <<"b", "o">>

\* const authenticatedUsername = socket.username || username;
AuthenticatedUsername(c, username) ==
  IF JwtUsername(c) # <<>> THEN JwtUsername(c) ELSE username

\* the display names and the message bodies a client sends, the empty ones
\* included
DisplayNames(c) == {<<>>, JwtUsername(c)}
Texts == Bodies \cup {<<>>}

----------------------------------------------------------------------------
(* JavaScript objects and arrays *)

Range(s) == {s[i] : i \in DOMAIN s}

EmptyObj == [k \in {} |-> {}]

\* obj[k] = v
Put(obj, k, v) == [x \in DOMAIN obj \cup {k} |-> IF x = k THEN v ELSE obj[x]]

\* delete obj[k]
Delete(obj, k) == [x \in DOMAIN obj \ {k} |-> obj[x]]

RemoveAt(s, i) == [j \in 1..(Len(s) - 1) |-> IF j < i THEN s[j] ELSE s[j + 1]]

----------------------------------------------------------------------------
(* socket.io delivery: who receives an emission *)

\* sockets of namespace ns that are in room `room` (a socket is in its own id room)
Rcpt(ns, room, sk, si) ==
  {x \in Conn : ClientNamespace = ns /\ sk[x] = "open"
                /\ (room = x \/ room \in si[x])}

\* io.to(room).emit(ev, data)
IoToEmit(room, ev, data, sk, si) ==
  [ev |-> ev, ns |-> IoNamespace, to |-> room,
   rcpt |-> Rcpt(IoNamespace, room, sk, si), data |-> data]

\* io.emit(ev, data)
IoEmit(ev, data, sk) ==
  [ev |-> ev, ns |-> IoNamespace, to |-> "*",
   rcpt |-> {x \in Conn : ClientNamespace = IoNamespace /\ sk[x] = "open"},
   data |-> data]

\* socket.emit(ev, data)
SocketEmit(c, ev, data, sk) ==
  [ev |-> ev, ns |-> ChatNamespace, to |-> c,
   rcpt |-> IF sk[c] = "open" THEN {c} ELSE {}, data |-> data]

\* socket.to(to).emit(ev, data): the room `to` of the socket's namespace, less itself
SocketToEmit(c, to, ev, data, sk, si) ==
  [ev |-> ev, ns |-> ChatNamespace, to |-> to,
   rcpt |-> Rcpt(ChatNamespace, to, sk, si) \ {c}, data |-> data]

\* callback(data): the acknowledgement of an event of socket c
Ack(c, data, sk) ==
  [ev |-> "ack", ns |-> ChatNamespace, to |-> c,
   rcpt |-> IF sk[c] = "open" THEN {c} ELSE {}, data |-> data]

----------------------------------------------------------------------------
(* Messages *)

\* a missing roomId / recipient (undefined)
NoRoom == ""

\* the message object built by send_message / send_file / private_message.
\* isFile stands for the presence of the `file` field, hasReactions for the
\* presence of the `reactions` field.  opn is a history tag (the number of the
\* store operation that persists the message); the code never reads it.
Message(c, user, body, isFile, isPrivate, t) ==
  [opn |-> nops + 1, id |-> t, sender |-> user.username, senderId |-> c, roomId |-> user.room,
   timestamp |-> t, message |-> body, isFile |-> isFile,
   isPrivate |-> isPrivate, hasReactions |-> FALSE, reactions |-> EmptyObj]

\* messages.push(message); if (messages.length > 100) messages.shift();
PushCapped(log, m) ==
  LET pushed == Append(log, m)
  IN IF Len(pushed) > CAP THEN Tail(pushed) ELSE pushed

----------------------------------------------------------------------------
(* storage.js: the document and the synchronous part of each operation *)

DefaultDoc ==
  [messages |-> <<>>, readReceipts |-> EmptyObj, rooms |-> <<"general">>]

AddMessageKinds == {"send_message", "send_file", "private_message"}

\* index of data.messages.find((m) => String(m.id) === String(messageId)), 0 if none
FindMessage(doc, messageId) ==
  IF \E i \in DOMAIN doc.messages : doc.messages[i].id = messageId
  THEN CHOOSE i \in DOMAIN doc.messages :
         /\ doc.messages[i].id = messageId
         /\ \A j \in 1..(i - 1) : doc.messages[j].id # messageId
  ELSE 0

\* addMessage, between readData and writeData
AddMessageDoc(doc, m) == [doc EXCEPT !.messages = PushCapped(doc.messages, m)]

\* addRoom, between readData and writeData
AddRoomDoc(doc, roomName) ==
  IF roomName \in Range(doc.rooms) THEN doc
  ELSE [doc EXCEPT !.rooms = Append(doc.rooms, roomName)]

\* markMessageRead that keeps the timestamp of the first call
MarkMessageReadDoc_KeepFirst(doc, messageId, userId, t) ==
  LET old == IF messageId \in DOMAIN doc.readReceipts
             THEN doc.readReceipts[messageId] ELSE EmptyObj
  IN [doc EXCEPT !.readReceipts =
        Put(doc.readReceipts, messageId,
            IF userId \in DOMAIN old THEN old ELSE Put(old, userId, t))]

\* markMessageRead, between readData and writeData
MarkMessageReadDoc(doc, messageId, userId, t) ==
  LET old == IF messageId \in DOMAIN doc.readReceipts
             THEN doc.readReceipts[messageId] ELSE EmptyObj
  IN [doc EXCEPT !.readReceipts = Put(doc.readReceipts, messageId,
                                      Put(old, userId, t))]

\* addReaction that also records the reacting user as the message's sender
AddReactionDoc_Resign(doc, messageId, userId, reaction) ==
  LET i == FindMessage(doc, messageId)
  IN IF i = 0 THEN doc
     ELSE LET m == doc.messages[i]
              list == IF reaction \in DOMAIN m.reactions
                      THEN m.reactions[reaction] ELSE <<>>
              pushed == IF userId \in Range(list) THEN list
                        ELSE Append(list, userId)
          IN [doc EXCEPT !.messages[i] =
                [m EXCEPT !.senderId = userId,
                          !.hasReactions = TRUE,
                          !.reactions = Put(m.reactions, reaction, pushed)]]

\* addReaction without the includes() test of line 99
AddReactionDoc_Push(doc, messageId, userId, reaction) ==
  LET i == FindMessage(doc, messageId)
  IN IF i = 0 THEN doc
     ELSE LET m == doc.messages[i]
              list == IF reaction \in DOMAIN m.reactions
                      THEN m.reactions[reaction] ELSE <<>>
          IN [doc EXCEPT !.messages[i] =
                [m EXCEPT !.hasReactions = TRUE,
                          !.reactions = Put(m.reactions, reaction,
                                            Append(list, userId))]]

\* addReaction, between readData and writeData
AddReactionDoc(doc, messageId, userId, reaction) ==
  LET i == FindMessage(doc, messageId)
  IN IF i = 0 THEN doc
     ELSE LET m == doc.messages[i]
              list == IF reaction \in DOMAIN m.reactions
                      THEN m.reactions[reaction] ELSE <<>>
              pushed == IF userId \in Range(list) THEN list
                        ELSE Append(list, userId)
          IN [doc EXCEPT !.messages[i] =
                [m EXCEPT !.hasReactions = TRUE,
                          !.reactions = Put(m.reactions, reaction, pushed)]]

\* removeReaction without the delete of lines 114-116
RemoveReactionDoc_KeepKey(doc, messageId, userId, reaction) ==
  LET i == FindMessage(doc, messageId)
  IN IF i = 0 THEN doc
     ELSE LET m == doc.messages[i]
          IN IF ~(m.hasReactions /\ reaction \in DOMAIN m.reactions) THEN doc
             ELSE [doc EXCEPT !.messages[i].reactions =
                     Put(m.reactions, reaction,
                         SelectSeq(m.reactions[reaction],
                                   LAMBDA id : id # userId))]

\* removeReaction, between readData and writeData
RemoveReactionDoc(doc, messageId, userId, reaction) ==
  LET i == FindMessage(doc, messageId)
  IN IF i = 0 THEN doc
     ELSE LET m == doc.messages[i]
          IN IF ~(m.hasReactions /\ reaction \in DOMAIN m.reactions) THEN doc
             ELSE LET kept == SelectSeq(m.reactions[reaction],
                                        LAMBDA id : id # userId)
                  IN [doc EXCEPT !.messages[i].reactions =
                        IF kept = <<>> THEN Delete(m.reactions, reaction)
                        ELSE Put(m.reactions, reaction, kept)]

----------------------------------------------------------------------------
(* server.js: GET /api/messages *)

\* no `search` / `roomId` query parameter
NoSearch == <<>>

LowerChar(ch) ==
  CASE ch = "A" -> "a" [] ch = "B" -> "b" [] ch = "H" -> "h"
    [] ch = "I" -> "i" [] ch = "L" -> "l" [] ch = "O" -> "o"
    [] OTHER -> ch

\* String.prototype.toLowerCase
ToLowerCase(str) == [i \in DOMAIN str |-> LowerChar(str[i])]

\* String.prototype.includes
Includes(str, sub) ==
  \E k \in 0..(Len(str) - Len(sub)) : SubSeq(str, k + 1, k + Len(sub)) = sub

\* an insertion that sorts oldest first
InsertDesc_Asc(sorted, m) ==
  LET k == Cardinality({i \in DOMAIN sorted : sorted[i].timestamp <= m.timestamp})
  IN SubSeq(sorted, 1, k) \o <<m>> \o SubSeq(sorted, k + 1, Len(sorted))

\* insertion of m behind every element that does not sort after it
InsertDesc(sorted, m) ==
  LET k == Cardinality({i \in DOMAIN sorted : sorted[i].timestamp >= m.timestamp})
  IN SubSeq(sorted, 1, k) \o <<m>> \o SubSeq(sorted, k + 1, Len(sorted))

\* filteredMsgs.sort((a, b) => new Date(b.timestamp) - new Date(a.timestamp)),
\* a stable sort
RECURSIVE SortDesc(_)
SortDesc(list) ==
  IF list = <<>> THEN <<>>
  ELSE InsertDesc(SortDesc(SubSeq(list, 1, Len(list) - 1)), list[Len(list)])

\* Array.prototype.slice(from, to) for 0 <= from
Slice(list, from, to) ==
  SubSeq(list, from + 1, IF to < Len(list) THEN to ELSE Len(list))

\* a room filter that hides private messages
RoomFilter_NoPrivate(msgs, roomId) ==
  IF roomId = NoRoom THEN msgs
  ELSE SelectSeq(msgs, LAMBDA m :
         /\ ~m.isPrivate
         /\ m.roomId = roomId \/ (m.roomId = NoRoom /\ roomId = "general"))

RoomFilter(msgs, roomId) ==
  IF roomId = NoRoom THEN msgs
  ELSE SelectSeq(msgs, LAMBDA m :
         m.roomId = roomId \/ (m.roomId = NoRoom /\ roomId = "general"))

SearchFilter(msgs, search) ==
  IF search = NoSearch THEN msgs
  ELSE SelectSeq(msgs, LAMBDA m :
         \/ Includes(ToLowerCase(m.message), ToLowerCase(search))
         \/ Includes(ToLowerCase(m.sender), ToLowerCase(search)))

\* a response whose hasMore also counts the page that ends at the total
QueryMessages_Inclusive(msgs, q) ==
  LET filteredMsgs == SortDesc(SearchFilter(RoomFilter(msgs, q.roomId), q.search))
  IN [messages |-> Slice(filteredMsgs, q.offset, q.offset + q.limit),
      total |-> Len(filteredMsgs),
      hasMore |-> q.offset + q.limit <= Len(filteredMsgs)]

\* the body of the 200 response
QueryMessages(msgs, q) ==
  LET filteredMsgs == SortDesc(SearchFilter(RoomFilter(msgs, q.roomId), q.search))
  IN [messages |-> Slice(filteredMsgs, q.offset, q.offset + q.limit),
      total |-> Len(filteredMsgs),
      hasMore |-> q.offset + q.limit < Len(filteredMsgs)]

----------------------------------------------------------------------------
(* storage.js: each operation between its readData and its writeData *)

\* the document an operation holds when it reaches writeData (or returns)
StoreMutate(op, doc, t) ==
  CASE op.kind \in AddMessageKinds -> AddMessageDoc(doc, op.arg.msg)
    [] op.kind = "addRoom" -> AddRoomDoc(doc, op.arg.room)
    [] op.kind = "message_read" ->
         MarkMessageReadDoc(doc, op.arg.messageId, op.conn, t)
    [] op.kind = "add_reaction" ->
         AddReactionDoc(doc, op.arg.messageId, op.conn, op.arg.reaction)
    [] op.kind = "remove_reaction" ->
         RemoveReactionDoc(doc, op.arg.messageId, op.conn, op.arg.reaction)
    [] op.kind = "getMessages" ->
         \* filteredMsgs is the array read when no filter applies, and
         \* Array.prototype.sort sorts it in place
         IF op.arg.roomId = NoRoom /\ op.arg.search = NoSearch
         THEN [doc EXCEPT !.messages = SortDesc(doc.messages)] ELSE doc
    [] OTHER -> doc

\* whether the operation calls writeData on the document it read
StoreWrites(op, doc) ==
  CASE op.kind \in AddMessageKinds -> TRUE
    [] op.kind = "addRoom" -> op.arg.room \notin Range(doc.rooms)
    [] op.kind = "message_read" -> TRUE
    [] op.kind = "add_reaction" -> FindMessage(doc, op.arg.messageId) # 0
    [] op.kind = "remove_reaction" ->
         LET i == FindMessage(doc, op.arg.messageId)
         IN /\ i # 0
            /\ doc.messages[i].hasReactions
            /\ op.arg.reaction \in DOMAIN doc.messages[i].reactions
    [] OTHER -> FALSE

----------------------------------------------------------------------------
(* server.js: what a handler does once its store operation has settled *)

\* a continuation without the .catch of the handlers
Continue_NoCatch(op, ok, doc) ==
  IF ok /\ op.kind = "send_message"
  THEN (IF op.arg.cb
        THEN <<Ack(op.conn, [success |-> TRUE, messageId |-> op.arg.msg.id,
                            opn |-> op.n], sock)>>
        ELSE <<>>)
       \o <<IoToEmit(op.arg.room, "receive_message",
                     [msg |-> op.arg.msg, opn |-> op.n], sock, sio)>>
  ELSE <<>>

\* the events emitted by the continuation of `op`; ok: the promise resolved;
\* doc: the document the operation held
Continue(op, ok, doc) ==
  CASE op.kind = "send_message" ->
         IF ok
         THEN (IF op.arg.cb
               THEN <<Ack(op.conn, [success |-> TRUE, messageId |-> op.arg.msg.id,
                                   opn |-> op.n], sock)>>
               ELSE <<>>)
              \o <<IoToEmit(op.arg.room, "receive_message",
                            [msg |-> op.arg.msg, opn |-> op.n], sock, sio)>>
         ELSE IF op.arg.cb
              THEN <<Ack(op.conn, [success |-> FALSE,
                                   error |-> "Failed to persist message",
                                   opn |-> op.n], sock)>>
              ELSE <<>>
    [] op.kind = "message_read" ->
         IF ok /\ op.conn \in DOMAIN users
         THEN <<IoToEmit(users[op.conn].room, "read_receipt",
                         [messageId |-> op.arg.messageId,
                          receipts |-> doc.readReceipts[op.arg.messageId]],
                         sock, sio)>>
         ELSE <<>>
    [] op.kind = "add_reaction" ->
         IF ok /\ op.conn \in DOMAIN users
         THEN <<IoToEmit(users[op.conn].room, "reaction_added",
                         [messageId |-> op.arg.messageId,
                          reaction |-> op.arg.reaction, userId |-> op.conn],
                         sock, sio)>>
         ELSE <<>>
    [] op.kind = "remove_reaction" ->
         IF ok /\ op.conn \in DOMAIN users
         THEN <<IoToEmit(users[op.conn].room, "reaction_removed",
                         [messageId |-> op.arg.messageId,
                          reaction |-> op.arg.reaction, userId |-> op.conn],
                         sock, sio)>>
         ELSE <<>>
    [] op.kind = "getMessages" ->
         IF ok
         THEN <<[ev |-> "http", status |-> 200, q |-> op.arg,
                 body |-> QueryMessages(doc.messages, op.arg)]>>
         ELSE <<[ev |-> "http", status |-> 500, q |-> op.arg]>>
    [] OTHER -> <<>>

\* the in-memory `messages` after the continuation of `op`
ContinueMessages(op, ok) ==
  IF ok /\ op.kind \in AddMessageKinds
  THEN PushCapped(messages, op.arg.msg) ELSE messages

\* history: the message events among `events` (indices), by op number
Emitted(events) ==
  {i \in DOMAIN events : events[i].ev \in {"receive_message", "private_message"}}

NoteSent(events) ==
  LET new == {events[i].data.opn : i \in Emitted(events)}
      of(n) == {i \in Emitted(events) : events[i].data.opn = n}
  IN [n \in DOMAIN sent \cup new |->
        [msg |-> IF n \in DOMAIN sent THEN sent[n].msg
                 ELSE events[CHOOSE i \in of(n) : TRUE].data.msg,
         rcpt |-> (IF n \in DOMAIN sent THEN sent[n].rcpt ELSE {})
                  \cup UNION {events[i].rcpt : i \in of(n)}]]

----------------------------------------------------------------------------
(* Initial state: the server has started, the store file holds the default *)
(* document, nobody is connected.                                          *)

Init ==
  /\ sock = [c \in Conn |-> "new"]
  /\ users = EmptyObj
  /\ rooms = EmptyObj
  /\ sio = [c \in Conn |-> {}]
  /\ typingUsers = {}
  /\ messages = <<>>
  /\ availableRooms = <<"general">>
  /\ file = DefaultDoc
  /\ DEFAULT = DefaultDoc
  /\ ops = <<>>
  /\ now = 1
  /\ out = <<>>
  /\ nops = 0
  /\ faults = 0
  /\ sent = EmptyObj
  /\ written = {}
  /\ failed = {}

\* a new store operation, suspended before its readData
NewOp(kind, c, arg) ==
  [n |-> nops + 1, kind |-> kind, conn |-> c, stage |-> "read", arg |-> arg,
   data |-> DefaultDoc, aliased |-> FALSE]

\* user.room = newRoom is seen by the handlers that hold the same user object
Reroom(list, c, newRoom) ==
  [i \in DOMAIN list |->
     IF list[i].kind = "send_message" /\ list[i].conn = c /\ list[i].arg.live
     THEN [list[i] EXCEPT !.arg.room = newRoom] ELSE list[i]]

\* users[socket.id] is replaced or deleted: the handlers keep the old object
Orphan(list, c) ==
  [i \in DOMAIN list |->
     IF list[i].kind = "send_message" /\ list[i].conn = c
     THEN [list[i] EXCEPT !.arg.live = FALSE] ELSE list[i]]

----------------------------------------------------------------------------
(* Connection and session handlers *)

\* a middleware that calls next() whatever the token
Connect_NoCheck(c, tokenOk) ==
  /\ sock[c] = "new"
  /\ sock' = [sock EXCEPT ![c] = "open"]
  /\ out' = <<>>
  /\ UNCHANGED <<users, rooms, sio, typingUsers, messages, availableRooms,
                 file, DEFAULT, ops, now, nops, faults, sent, written, failed>>

\* chatNamespace.use: the token check of a connection attempt
Connect(c, tokenOk) ==
  /\ sock[c] = "new"
  /\ sock' = [sock EXCEPT ![c] = IF tokenOk THEN "open" ELSE "rejected"]
  /\ out' = IF tokenOk THEN <<>>
            ELSE <<[ev |-> "connect_error", ns |-> ChatNamespace, to |-> c,
                    rcpt |-> {c}, data |-> [error |-> "Authentication error"]]>>
  /\ UNCHANGED <<users, rooms, sio, typingUsers, messages, availableRooms,
                 file, DEFAULT, ops, now, nops, faults, sent, written, failed>>

\* socket.on("user_join")
UserJoinAs(c, username, room) ==
  /\ sock[c] = "open"
  /\ LET user == [username |-> AuthenticatedUsername(c, username), id |-> c,
                  room |-> room]
         sio1 == [sio EXCEPT ![c] = @ \cup {room}]
         rooms1 == Put(rooms, room,
                       (IF room \in DOMAIN rooms THEN rooms[room] ELSE {}) \cup {c})
     IN /\ users' = Put(users, c, user)
        /\ sio' = sio1
        /\ rooms' = rooms1
        /\ ops' = Orphan(ops, c)
        /\ out' = <<IoToEmit(room, "user_list", [members |-> rooms1[room]], sock, sio1),
                    IoToEmit(room, "user_joined", [id |-> c], sock, sio1),
                    IoToEmit(room, "user_status", [id |-> c, status |-> "online"],
                             sock, sio1),
                    SocketEmit(c, "room_joined", [room |-> room], sock)>>
  /\ UNCHANGED <<sock, typingUsers, messages, availableRooms, file, DEFAULT,
                 now, nops, faults, sent, written, failed>>

\* user_join from a client that names itself as its token does
UserJoin(c, room) == UserJoinAs(c, JwtUsername(c), room)

\* socket.on("switch_room")
SwitchRoom(c, newRoom) ==
  /\ sock[c] = "open"
  /\ IF c \notin DOMAIN users
     THEN /\ out' = <<>>
          /\ UNCHANGED <<users, rooms, sio, availableRooms, ops, nops>>
     ELSE LET user == users[c]
              oldRoom == user.room
              known == newRoom \in Range(availableRooms)
              sio1 == [sio EXCEPT ![c] = @ \ {oldRoom}]
              rooms1 == [rooms EXCEPT ![oldRoom] = @ \ {c}]
              sio2 == [sio1 EXCEPT ![c] = @ \cup {newRoom}]
              rooms2 == Put(rooms1, newRoom,
                            (IF newRoom \in DOMAIN rooms1 THEN rooms1[newRoom]
                             ELSE {}) \cup {c})
              ops1 == Reroom(ops, c, newRoom)
          IN /\ users' = [users EXCEPT ![c].room = newRoom]
             /\ sio' = sio2
             /\ rooms' = rooms2
             /\ availableRooms' = IF known THEN availableRooms
                                  ELSE Append(availableRooms, newRoom)
             /\ ops' = IF known THEN ops1
                       ELSE Append(ops1, NewOp("addRoom", c, [room |-> newRoom]))
             /\ nops' = IF known THEN nops ELSE nops + 1
             /\ out' = <<IoToEmit(oldRoom, "user_list",
                                  [members |-> rooms1[oldRoom]], sock, sio1),
                         IoToEmit(oldRoom, "user_left", [id |-> c], sock, sio1),
                         IoToEmit(newRoom, "user_list",
                                  [members |-> rooms2[newRoom]], sock, sio2),
                         IoToEmit(newRoom, "user_joined", [id |-> c], sock, sio2),
                         SocketEmit(c, "room_joined", [room |-> newRoom], sock)>>
  /\ UNCHANGED <<sock, typingUsers, messages, file, DEFAULT, now, faults,
                 sent, written, failed>>

\* socket.on("disconnect"); socket.io has taken the socket out of its rooms
Disconnect(c) ==
  /\ sock[c] = "open"
  /\ LET sock1 == [sock EXCEPT ![c] = "closed"]
         sio1 == [sio EXCEPT ![c] = {}]
         joined == c \in DOMAIN users
         room == users[c].room
         rooms1 == IF joined THEN [rooms EXCEPT ![room] = @ \ {c}] ELSE rooms
         typing1 == typingUsers \ {c}
     IN /\ sock' = sock1
        /\ sio' = sio1
        /\ rooms' = rooms1
        /\ users' = Delete(users, c)
        /\ typingUsers' = typing1
        /\ ops' = Orphan(ops, c)
        /\ out' = (IF joined
                   THEN <<IoToEmit(room, "user_left", [id |-> c], sock1, sio1),
                          IoToEmit(room, "user_status",
                                   [id |-> c, status |-> "offline"], sock1, sio1),
                          IoToEmit(room, "user_list",
                                   [members |-> rooms1[room]], sock1, sio1)>>
                   ELSE <<>>)
                  \o <<IoEmit("typing_users",
                              [names |-> {JwtUsername(x) : x \in typing1}], sock1)>>
  /\ UNCHANGED <<messages, availableRooms, file, DEFAULT, now, nops, faults,
                 sent, written, failed>>

\* a typing handler without the `if (!users[socket.id]) return` guard
Typing_NoGuard(c, isTyping) ==
  /\ sock[c] = "open"
  /\ LET typing1 == IF isTyping THEN typingUsers \cup {c} ELSE typingUsers \ {c}
         room == IF c \in DOMAIN users THEN users[c].room ELSE NoRoom
     IN /\ typingUsers' = typing1
        /\ out' = <<IoToEmit(room, "typing_users",
                             [names |-> {JwtUsername(x) : x \in typing1}], sock, sio)>>
  /\ UNCHANGED <<sock, users, rooms, sio, messages, availableRooms, file,
                 DEFAULT, ops, now, nops, faults, sent, written, failed>>

\* socket.on("typing"); Object.values(typingUsers) lists every typing user
Typing(c, isTyping) ==
  /\ sock[c] = "open"
  /\ IF c \notin DOMAIN users
     THEN /\ out' = <<>>
          /\ UNCHANGED typingUsers
     ELSE LET typing1 == IF isTyping THEN typingUsers \cup {c}
                         ELSE typingUsers \ {c}
          IN /\ typingUsers' = typing1
             /\ out' = <<IoToEmit(users[c].room, "typing_users",
                                  [names |-> {JwtUsername(x) : x \in typing1}],
                                  sock, sio)>>
  /\ UNCHANGED <<sock, users, rooms, sio, messages, availableRooms, file,
                 DEFAULT, ops, now, nops, faults, sent, written, failed>>

----------------------------------------------------------------------------
(* Message handlers *)

\* send_message without the session guard of lines 179-183: a connection
\* without a session sends as an anonymous user of "general"
SendMessage_NoGuard(c, body, cb) ==
  /\ sock[c] = "open"
  /\ LET user == IF c \in DOMAIN users THEN users[c]
                 ELSE [id |-> c, username |-> JwtUsername(c), room |-> "general"]
         message == Message(c, user, body, FALSE, FALSE, now)
     IN ops' = Append(ops, NewOp("send_message", c,
                 [msg |-> message, cb |-> cb, room |-> user.room,
                  live |-> TRUE]))
  /\ nops' = nops + 1
  /\ out' = <<>>
  /\ UNCHANGED <<sock, users, rooms, sio, typingUsers, messages, availableRooms,
                 file, DEFAULT, now, faults, sent, written, failed>>

\* socket.on("send_message"); cb: whether the client passed a callback
SendMessage(c, body, cb) ==
  /\ sock[c] = "open"
  /\ IF c \notin DOMAIN users
     THEN /\ out' = IF cb
                    THEN <<Ack(c, [success |-> FALSE,
                                   error |-> "Not authenticated", opn |-> 0], sock)>>
                    ELSE <<>>
          /\ UNCHANGED <<ops, nops>>
     ELSE /\ LET user == users[c]
                 message == Message(c, user, body, FALSE, FALSE, now)
             IN ops' = Append(ops, NewOp("send_message", c,
                         [msg |-> message, cb |-> cb, room |-> user.room,
                          live |-> TRUE]))
          /\ nops' = nops + 1
          /\ out' = <<>>
  /\ UNCHANGED <<sock, users, rooms, sio, typingUsers, messages, availableRooms,
                 file, DEFAULT, now, faults, sent, written, failed>>

\* socket.on("send_file")
SendFile(c) ==
  /\ sock[c] = "open"
  /\ IF c \notin DOMAIN users
     THEN /\ out' = <<>>
          /\ UNCHANGED <<ops, nops, sent>>
     ELSE /\ LET user == users[c]
                 message == Message(c, user, <<"f">>, TRUE, FALSE, now)
                 events == <<IoToEmit(user.room, "receive_message",
                                      [msg |-> message, opn |-> nops + 1],
                                      sock, sio)>>
             IN /\ ops' = Append(ops, NewOp("send_file", c, [msg |-> message]))
                /\ out' = events
                /\ sent' = NoteSent(events)
          /\ nops' = nops + 1
  /\ UNCHANGED <<sock, users, rooms, sio, typingUsers, messages, availableRooms,
                 file, DEFAULT, now, faults, written, failed>>

\* socket.on("private_message")
PrivateMessage(c, to, body) ==
  /\ sock[c] = "open"
  /\ IF c \notin DOMAIN users
     THEN /\ out' = <<>>
          /\ UNCHANGED <<ops, nops, sent>>
     ELSE /\ LET user == users[c]
                 messageData == Message(c, user, body, FALSE, TRUE, now)
                 events == <<SocketToEmit(c, to, "private_message",
                                          [msg |-> messageData, opn |-> nops + 1],
                                          sock, sio),
                             SocketEmit(c, "private_message",
                                        [msg |-> messageData, opn |-> nops + 1],
                                        sock)>>
             IN /\ ops' = Append(ops, NewOp("private_message", c,
                                            [msg |-> messageData]))
                /\ out' = events
                /\ sent' = NoteSent(events)
          /\ nops' = nops + 1
  /\ UNCHANGED <<sock, users, rooms, sio, typingUsers, messages, availableRooms,
                 file, DEFAULT, now, faults, written, failed>>

\* a handler without the `if (!users[socket.id]) return` guard
Await_NoGuard(c, kind, arg) ==
  /\ sock[c] = "open"
  /\ ops' = Append(ops, NewOp(kind, c, arg))
  /\ nops' = nops + 1
  /\ out' = <<>>
  /\ UNCHANGED <<sock, users, rooms, sio, typingUsers, messages, availableRooms,
                 file, DEFAULT, now, faults, sent, written, failed>>

\* a handler that returns at once when the connection has no session and
\* otherwise awaits one store operation
Await(c, kind, arg) ==
  /\ sock[c] = "open"
  /\ IF c \notin DOMAIN users
     THEN UNCHANGED <<ops, nops>>
     ELSE /\ ops' = Append(ops, NewOp(kind, c, arg))
          /\ nops' = nops + 1
  /\ out' = <<>>
  /\ UNCHANGED <<sock, users, rooms, sio, typingUsers, messages, availableRooms,
                 file, DEFAULT, now, faults, sent, written, failed>>

\* socket.on("message_read")
MessageRead(c, messageId) == Await(c, "message_read", [messageId |-> messageId])

\* socket.on("add_reaction")
AddReaction(c, messageId, reaction) ==
  Await(c, "add_reaction", [messageId |-> messageId, reaction |-> reaction])

\* socket.on("remove_reaction")
RemoveReaction(c, messageId, reaction) ==
  Await(c, "remove_reaction", [messageId |-> messageId, reaction |-> reaction])

----------------------------------------------------------------------------
(* The asynchronous steps of a store operation *)

\* readData completes (res = "ok": the file is read and parsed; "default": the
\* read or the parse failed and { ...DEFAULT } is returned; "throw":
\* ensureDataFile threw), and the operation runs on to its writeData or to
\* its end.
StoreRead(i, res) ==
  /\ i \in DOMAIN ops
  /\ ops[i].stage = "read"
  /\ faults' = IF res = "ok" THEN faults ELSE faults + 1
  /\ LET op == ops[i]
         src == IF res = "default" THEN DEFAULT ELSE file
         doc == StoreMutate(op, src, now)
         ok == res # "throw"
         done == ~ok \/ ~StoreWrites(op, src)
         events == IF done THEN Continue(op, ok, doc) ELSE <<>>
     IN /\ DEFAULT' = IF res = "default" THEN doc ELSE DEFAULT
        /\ ops' = IF done THEN RemoveAt(ops, i)
                  ELSE [ops EXCEPT ![i] = [op EXCEPT !.stage = "write",
                                                     !.data = doc,
                                                     !.aliased = (res = "default")]]
        /\ out' = events
        /\ messages' = IF done THEN ContinueMessages(op, ok) ELSE messages
        /\ sent' = NoteSent(events)
        /\ failed' = IF ok THEN failed ELSE failed \cup {op.n}
  /\ UNCHANGED <<sock, users, rooms, sio, typingUsers, availableRooms, file,
                 now, nops, written>>

\* a writeData that applies the operation to the document as it is now, as
\* if the read, the change and the write were one step
StoreWrite_Atomic(i, ok) ==
  /\ i \in DOMAIN ops
  /\ ops[i].stage = "write"
  /\ faults' = IF ok THEN faults ELSE faults + 1
  /\ LET op == ops[i]
         doc == StoreMutate(op, file, now)
         events == Continue(op, ok, doc)
     IN /\ file' = IF ok THEN doc ELSE file
        /\ ops' = RemoveAt(ops, i)
        /\ out' = events
        /\ messages' = ContinueMessages(op, ok)
        /\ sent' = NoteSent(events)
        /\ written' = IF ok THEN written \cup {op.n} ELSE written
        /\ failed' = IF ok THEN failed ELSE failed \cup {op.n}
  /\ UNCHANGED <<sock, users, rooms, sio, typingUsers, availableRooms, DEFAULT,
                 now, nops>>

\* writeData completes (ok) or throws, and the handler's continuation runs
StoreWrite(i, ok) ==
  /\ i \in DOMAIN ops
  /\ ops[i].stage = "write"
  /\ faults' = IF ok THEN faults ELSE faults + 1
  /\ LET op == ops[i]
         doc == IF op.aliased THEN DEFAULT ELSE op.data
         events == Continue(op, ok, doc)
     IN /\ file' = IF ok THEN doc ELSE file
        /\ ops' = RemoveAt(ops, i)
        /\ out' = events
        /\ messages' = ContinueMessages(op, ok)
        /\ sent' = NoteSent(events)
        /\ written' = IF ok THEN written \cup {op.n} ELSE written
        /\ failed' = IF ok THEN failed ELSE failed \cup {op.n}
  /\ UNCHANGED <<sock, users, rooms, sio, typingUsers, availableRooms, DEFAULT,
                 now, nops>>

\* app.get("/api/messages") with a valid bearer token; q.after is history: the
\* messages that were persisted and broadcast before the request arrived
GetMessages(q) ==
  /\ ops' = Append(ops, NewOp("getMessages", "http",
               [roomId |-> q.roomId, limit |-> q.limit, offset |-> q.offset,
                search |-> q.search,
                after |-> {n \in DOMAIN sent : n \in written}]))
  /\ nops' = nops + 1
  /\ out' = <<>>
  /\ UNCHANGED <<sock, users, rooms, sio, typingUsers, messages, availableRooms,
                 file, DEFAULT, now, faults, sent, written, failed>>

\* time passes
Tick ==
  /\ now' = now + 1
  /\ out' = <<>>
  /\ UNCHANGED <<sock, users, rooms, sio, typingUsers, messages, availableRooms,
                 file, DEFAULT, ops, nops, faults, sent, written, failed>>

----------------------------------------------------------------------------

(* Specifications.  A step is taken only into a state within the bounds. *)

Within(maxOps, maxInFlight, maxFaults, maxClock) ==
  /\ nops <= maxOps
  /\ Len(ops) <= maxInFlight
  /\ faults <= maxFaults
  /\ now <= maxClock

Bounded == Within(MaxOps, MaxInFlight, MaxFaults, MaxClock)

Senders == {"c1"}

(* The message pipeline: c1 joins, switches rooms, sends and leaves; c2 *)
(* joins and listens.                                                   *)
Next ==
  \/ \E c \in Conn : Connect(c, TRUE) /\ Bounded'
  \/ \E c \in Conn : UserJoin(c, "general") /\ Bounded'
  \/ \E c \in Senders, room \in RoomNames : SwitchRoom(c, room) /\ Bounded'
  \/ \E c \in Senders : Disconnect(c) /\ Bounded'
  \/ \E c \in Senders, body \in Bodies, cb \in BOOLEAN :
       SendMessage(c, body, cb) /\ Bounded'
  \/ \E c \in Senders : SendFile(c) /\ Bounded'
  \/ \E c \in Senders, to \in Conn, body \in Bodies :
       PrivateMessage(c, to, body) /\ Bounded'
  \/ \E i \in 1..MaxInFlight, res \in {"ok", "default", "throw"} :
       StoreRead(i, res) /\ Bounded'
  \/ \E i \in 1..MaxInFlight, ok \in BOOLEAN : StoreWrite(i, ok) /\ Bounded'
  \/ Tick /\ Bounded'

Spec == Init /\ [][Next]_vars

(* Sessions and rooms: every connection may join, switch and leave *)
NextRooms ==
  \/ \E c \in Conn, tokenOk \in BOOLEAN : Connect(c, tokenOk) /\ Bounded'
  \/ \E c \in Conn, room \in RoomNames : UserJoin(c, room) /\ Bounded'
  \/ \E c \in Conn, room \in RoomNames : SwitchRoom(c, room) /\ Bounded'
  \/ \E c \in Conn : Disconnect(c) /\ Bounded'
  \/ \E i \in 1..MaxInFlight, res \in {"ok", "default", "throw"} :
       StoreRead(i, res) /\ Bounded'
  \/ \E i \in 1..MaxInFlight, ok \in BOOLEAN : StoreWrite(i, ok) /\ Bounded'

SpecRooms == Init /\ [][NextRooms]_vars

(* One sender whose store reads and writes may fail *)
BoundedFaults == Within(FaultOps, FaultInFlight, FaultFaults, FaultClock)

NextFaults ==
  \/ Connect("c1", TRUE) /\ BoundedFaults'
  \/ UserJoin("c1", "general") /\ BoundedFaults'
  \/ \E body \in Bodies, cb \in BOOLEAN :
       SendMessage("c1", body, cb) /\ BoundedFaults'
  \/ \E i \in 1..FaultInFlight, res \in {"ok", "default", "throw"} :
       StoreRead(i, res) /\ BoundedFaults'
  \/ \E i \in 1..FaultInFlight, ok \in BOOLEAN : StoreWrite(i, ok) /\ BoundedFaults'
  \/ Tick /\ BoundedFaults'

SpecFaults == Init /\ [][NextFaults]_vars

(* Sends and history queries in flight together; no I/O failure *)
BoundedHistory == Within(HistOps, HistInFlight, 0, HistClock)

HistoryQuery ==
  [roomId |-> "general", limit |-> 50, offset |-> 0, search |-> NoSearch]

NextHistory ==
  \/ \E c \in Conn : Connect(c, TRUE) /\ BoundedHistory'
  \/ \E c \in Conn : UserJoin(c, "general") /\ BoundedHistory'
  \/ \E c \in Conn, body \in Bodies :
       SendMessage(c, body, TRUE) /\ BoundedHistory'
  \/ GetMessages(HistoryQuery) /\ BoundedHistory'
  \/ \E i \in 1..HistInFlight : StoreRead(i, "ok") /\ BoundedHistory'
  \/ \E i \in 1..HistInFlight : StoreWrite(i, TRUE) /\ BoundedHistory'
  \/ Tick /\ BoundedHistory'

SpecHistory == Init /\ [][NextHistory]_vars

(* The server starts on a store that earlier runs have filled up to the cap *)
OldLog(k) ==
  [i \in 1..k |->
     [opn |-> 0, id |-> i, sender |-> <<"o", "l", "d">>, senderId |-> "c0",
      roomId |-> "general", timestamp |-> i, message |-> <<"H", "i">>,
      isFile |-> FALSE, isPrivate |-> FALSE, hasReactions |-> FALSE,
      reactions |-> EmptyObj]]

InitCap ==
  /\ \E k \in {CAP - 1, CAP} :
       /\ file = [DefaultDoc EXCEPT !.messages = OldLog(k)]
       /\ messages = OldLog(k)
  /\ now = CAP + 1
  /\ sock = [c \in Conn |-> "new"]
  /\ users = EmptyObj
  /\ rooms = EmptyObj
  /\ sio = [c \in Conn |-> {}]
  /\ typingUsers = {}
  /\ availableRooms = <<"general">>
  /\ DEFAULT = DefaultDoc
  /\ ops = <<>>
  /\ out = <<>>
  /\ nops = 0
  /\ faults = 0
  /\ sent = EmptyObj
  /\ written = {}
  /\ failed = {}

BoundedCap == Within(CapOps, CapInFlight, 0, CAP + 1 + CapTicks)

NextCap ==
  \/ Connect("c1", TRUE) /\ BoundedCap'
  \/ UserJoin("c1", "general") /\ BoundedCap'
  \/ \E body \in Bodies : SendMessage("c1", body, TRUE) /\ BoundedCap'
  \/ SendFile("c1") /\ BoundedCap'
  \/ \E i \in 1..CapInFlight : StoreRead(i, "ok") /\ BoundedCap'
  \/ \E i \in 1..CapInFlight : StoreWrite(i, TRUE) /\ BoundedCap'
  \/ Tick /\ BoundedCap'

SpecCap == InitCap /\ [][NextCap]_vars

(* Both connections have joined "general"; the store holds messages of *)
(* earlier runs.                                                        *)
Joined(log, t) ==
  /\ file = [DefaultDoc EXCEPT !.messages = log]
  /\ messages = log
  /\ now = t
  /\ sock = [c \in Conn |-> "open"]
  /\ users = [c \in Conn |->
                [username |-> JwtUsername(c), id |-> c, room |-> "general"]]
  /\ rooms = Put(EmptyObj, "general", Conn)
  /\ sio = [c \in Conn |-> {"general"}]
  /\ typingUsers = {}
  /\ availableRooms = <<"general">>
  /\ DEFAULT = DefaultDoc
  /\ ops = <<>>
  /\ out = <<>>
  /\ nops = 0
  /\ faults = 0
  /\ sent = EmptyObj
  /\ written = {}
  /\ failed = {}

InitRoom == Joined(OldLog(StoredMessages), StoredMessages + 1)

\* the ids a client names: a stored message and one that is not stored
ReactIds == {1, StoredMessages + 1}

(* Reactions of both connections on stored and unknown messages *)
BoundedReact == Within(ReactOps, ReactInFlight, 0, StoredMessages + 1)

NextReact ==
  \/ \E c \in Conn, id \in ReactIds, r \in Reactions :
       AddReaction(c, id, r) /\ BoundedReact'
  \/ \E c \in Conn, id \in ReactIds, r \in Reactions :
       RemoveReaction(c, id, r) /\ BoundedReact'
  \/ \E i \in 1..ReactInFlight : StoreRead(i, "ok") /\ BoundedReact'
  \/ \E i \in 1..ReactInFlight : StoreWrite(i, TRUE) /\ BoundedReact'

SpecReact == InitRoom /\ [][NextReact]_vars

(* Read receipts of both connections on the stored messages *)
BoundedReceipts ==
  Within(ReceiptOps, ReceiptInFlight, 0, StoredMessages + 1 + ReceiptTicks)

NextReceipts ==
  \/ \E c \in Conn, id \in 1..StoredMessages :
       MessageRead(c, id) /\ BoundedReceipts'
  \/ \E i \in 1..ReceiptInFlight : StoreRead(i, "ok") /\ BoundedReceipts'
  \/ \E i \in 1..ReceiptInFlight : StoreWrite(i, TRUE) /\ BoundedReceipts'
  \/ Tick /\ BoundedReceipts'

SpecReceipts == InitRoom /\ [][NextReceipts]_vars

(* History queries over stores of earlier runs: messages of both rooms, a *)
(* message stored without roomId by the server version that had no rooms, *)
(* two messages of one instant.                                           *)
Stored(id, t, roomId, sender, body) ==
  [opn |-> 0, id |-> id, sender |-> sender, senderId |-> "c0", roomId |-> roomId,
   timestamp |-> t, message |-> body, isFile |-> FALSE, isPrivate |-> FALSE,
   hasReactions |-> FALSE, reactions |-> EmptyObj]

Pool ==
  <<Stored(1, 1, "general", <<"A", "l">>, <<"H", "i">>),
    Stored(2, 2, "dev", <<"b", "o">>, <<"H", "i">>),
    Stored(3, 2, NoRoom, <<"b", "o">>, <<"H", "i">>),
    Stored(4, 3, "general", <<"b", "o">>, <<"o", "h">>)>>

InitQuery ==
  \E ids \in SUBSET (1..Len(Pool)) :
    Joined(SelectSeq(Pool, LAMBDA m : m.id \in ids), Len(Pool))

Queries ==
  [roomId : RoomNames, limit : {0, PageSize, 50}, offset : {0, 1},
   search : {NoSearch, <<"h">>, <<"A">>}]

BoundedQuery == Within(QueryOps, QueryInFlight, 0, Len(Pool))

NextQuery ==
  \/ \E body \in Bodies : SendMessage("c1", body, TRUE) /\ BoundedQuery'
  \/ \E q \in Queries : GetMessages(q) /\ BoundedQuery'
  \/ \E i \in 1..QueryInFlight : StoreRead(i, "ok") /\ BoundedQuery'
  \/ \E i \in 1..QueryInFlight : StoreWrite(i, TRUE) /\ BoundedQuery'

SpecQuery == InitQuery /\ [][NextQuery]_vars

(* Typing indicators while connections join, switch rooms and leave *)
BoundedTyping == Within(TypingOps, TypingInFlight, 0, 1)

NextTyping ==
  \/ \E c \in Conn : Connect(c, TRUE) /\ BoundedTyping'
  \/ \E c \in Conn, room \in RoomNames : UserJoin(c, room) /\ BoundedTyping'
  \/ \E c \in Conn, room \in RoomNames : SwitchRoom(c, room) /\ BoundedTyping'
  \/ \E c \in Conn, isTyping \in BOOLEAN : Typing(c, isTyping) /\ BoundedTyping'
  \/ \E c \in Conn : Disconnect(c) /\ BoundedTyping'
  \/ \E i \in 1..TypingInFlight : StoreRead(i, "ok") /\ BoundedTyping'
  \/ \E i \in 1..TypingInFlight : StoreWrite(i, TRUE) /\ BoundedTyping'

SpecTyping == Init /\ [][NextTyping]_vars

(* Every messaging event, from connections with and without a session *)
Messaging(c) ==
  \/ \E room \in RoomNames : SwitchRoom(c, room)
  \/ \E body \in Bodies, cb \in BOOLEAN : SendMessage(c, body, cb)
  \/ SendFile(c)
  \/ \E isTyping \in BOOLEAN : Typing(c, isTyping)
  \/ \E to \in Conn, body \in Bodies : PrivateMessage(c, to, body)
  \/ MessageRead(c, 1)
  \/ \E r \in Reactions : AddReaction(c, 1, r)
  \/ \E r \in Reactions : RemoveReaction(c, 1, r)

BoundedFrame == Within(FrameOps, FrameInFlight, 0, 1)

NextFrame ==
  \/ \E c \in Conn : Connect(c, TRUE) /\ BoundedFrame'
  \/ UserJoin("c2", "general") /\ BoundedFrame'
  \/ \E c \in Conn : Messaging(c) /\ BoundedFrame'
  \/ \E i \in 1..FrameInFlight : StoreRead(i, "ok") /\ BoundedFrame'
  \/ \E i \in 1..FrameInFlight : StoreWrite(i, TRUE) /\ BoundedFrame'

SpecFrame == Init /\ [][NextFrame]_vars

(* Joins and sends with empty and non-empty display names and bodies *)
BoundedValidation == Within(ValidOps, ValidInFlight, 0, 1)

NextValidation ==
  \/ \E c \in Conn : Connect(c, TRUE) /\ BoundedValidation'
  \/ \E c \in Conn : \E username \in DisplayNames(c) :
       UserJoinAs(c, username, "general") /\ BoundedValidation'
  \/ \E c \in Conn, body \in Texts, cb \in BOOLEAN :
       SendMessage(c, body, cb) /\ BoundedValidation'
  \/ \E i \in 1..ValidInFlight : StoreRead(i, "ok") /\ BoundedValidation'
  \/ \E i \in 1..ValidInFlight : StoreWrite(i, TRUE) /\ BoundedValidation'

SpecValidation == Init /\ [][NextValidation]_vars

(* Sends and history queries whose store reads and writes may fail *)
BoundedQueryFaults == Within(QFaultOps, QFaultInFlight, QFaultFaults, 1)

NextQueryFaults ==
  \/ Connect("c1", TRUE) /\ BoundedQueryFaults'
  \/ UserJoin("c1", "general") /\ BoundedQueryFaults'
  \/ \E body \in Bodies : SendMessage("c1", body, TRUE) /\ BoundedQueryFaults'
  \/ GetMessages(HistoryQuery) /\ BoundedQueryFaults'
  \/ \E i \in 1..QFaultInFlight, res \in {"ok", "default", "throw"} :
       StoreRead(i, res) /\ BoundedQueryFaults'
  \/ \E i \in 1..QFaultInFlight, ok \in BOOLEAN :
       StoreWrite(i, ok) /\ BoundedQueryFaults'

SpecQueryFaults == Init /\ [][NextQueryFaults]_vars

(* One sender that switches room and disconnects while its sends are in
   flight; every store operation eventually completes or fails *)
BoundedLive == Within(LiveOps, LiveInFlight, LiveFaults, 1)

Settle ==
  \/ \E i \in 1..LiveInFlight, res \in {"ok", "default", "throw"} :
       StoreRead(i, res) /\ BoundedLive'
  \/ \E i \in 1..LiveInFlight, ok \in BOOLEAN : StoreWrite(i, ok) /\ BoundedLive'

NextLive ==
  \/ Connect("c1", TRUE) /\ BoundedLive'
  \/ \E room \in RoomNames : UserJoin("c1", room) /\ BoundedLive'
  \/ \E room \in RoomNames : SwitchRoom("c1", room) /\ BoundedLive'
  \/ Disconnect("c1") /\ BoundedLive'
  \/ \E body \in Bodies, cb \in BOOLEAN :
       SendMessage("c1", body, cb) /\ BoundedLive'
  \/ Settle

SpecLive == Init /\ [][NextLive]_vars /\ WF_vars(Settle)

(* Sends and reactions on stored messages, in flight together; no failure *)
BoundedRace == Within(RaceOps, RaceInFlight, 0, StoredMessages + 1)

NextRace ==
  \/ \E c \in Conn, body \in Bodies : SendMessage(c, body, TRUE) /\ BoundedRace'
  \/ \E c \in Conn, r \in Reactions : AddReaction(c, 1, r) /\ BoundedRace'
  \/ \E i \in 1..RaceInFlight : StoreRead(i, "ok") /\ BoundedRace'
  \/ \E i \in 1..RaceInFlight : StoreWrite(i, TRUE) /\ BoundedRace'

SpecRace == InitRoom /\ [][NextRace]_vars

(* Every mutating store operation on a store that holds messages *)
BoundedStore == Within(StoreOps, StoreInFlight, 0, StoredMessages + 1)

NextStore ==
  \/ \E body \in Bodies : SendMessage("c1", body, FALSE) /\ BoundedStore'
  \/ SwitchRoom("c1", "dev") /\ BoundedStore'
  \/ \E c \in Conn : MessageRead(c, 1) /\ BoundedStore'
  \/ \E c \in Conn : AddReaction(c, 1, "+1") /\ BoundedStore'
  \/ \E c \in Conn : RemoveReaction(c, 1, "+1") /\ BoundedStore'
  \/ \E i \in 1..StoreInFlight : StoreRead(i, "ok") /\ BoundedStore'
  \/ \E i \in 1..StoreInFlight : StoreWrite(i, TRUE) /\ BoundedStore'

SpecStore == InitRoom /\ [][NextStore]_vars

(* Reactions and read receipts on stored and on unknown message ids *)
BoundedUnknown == Within(UnknownOps, UnknownInFlight, 0, StoredMessages + 1)

NextUnknown ==
  \/ \E c \in Conn, id \in ReactIds : MessageRead(c, id) /\ BoundedUnknown'
  \/ \E c \in Conn, id \in ReactIds, r \in Reactions :
       AddReaction(c, id, r) /\ BoundedUnknown'
  \/ \E c \in Conn, id \in ReactIds, r \in Reactions :
       RemoveReaction(c, id, r) /\ BoundedUnknown'
  \/ \E i \in 1..UnknownInFlight : StoreRead(i, "ok") /\ BoundedUnknown'
  \/ \E i \in 1..UnknownInFlight : StoreWrite(i, TRUE) /\ BoundedUnknown'

SpecUnknown == InitRoom /\ [][NextUnknown]_vars

(* Reactions and read receipts of connections that may disconnect while *)
(* their store operation is in flight                                   *)
BoundedDrop == Within(DropOps, DropInFlight, 0, StoredMessages + 1)

NextDrop ==
  \/ \E c \in Conn : Disconnect(c) /\ BoundedDrop'
  \/ \E c \in Conn : MessageRead(c, 1) /\ BoundedDrop'
  \/ \E c \in Conn, r \in Reactions : AddReaction(c, 1, r) /\ BoundedDrop'
  \/ \E c \in Conn, r \in Reactions : RemoveReaction(c, 1, r) /\ BoundedDrop'
  \/ \E i \in 1..DropInFlight : StoreRead(i, "ok") /\ BoundedDrop'
  \/ \E i \in 1..DropInFlight : StoreWrite(i, TRUE) /\ BoundedDrop'

SpecDrop == InitRoom /\ [][NextDrop]_vars

(* Private messages between connections in any rooms, and room history *)
BoundedPrivate == Within(PrivOps, PrivInFlight, 0, PrivClock)

RoomQuery(roomId) == [HistoryQuery EXCEPT !.roomId = roomId]

NextPrivate ==
  \/ \E c \in Conn : Connect(c, TRUE) /\ BoundedPrivate'
  \/ \E room \in RoomNames : UserJoin("c1", room) /\ BoundedPrivate'
  \/ UserJoin("c2", "general") /\ BoundedPrivate'
  \/ \E c \in Senders, to \in Conn \cup RoomNames, body \in Bodies :
       PrivateMessage(c, to, body) /\ BoundedPrivate'
  \/ \E room \in RoomNames : GetMessages(RoomQuery(room)) /\ BoundedPrivate'
  \/ \E i \in 1..PrivInFlight : StoreRead(i, "ok") /\ BoundedPrivate'
  \/ \E i \in 1..PrivInFlight : StoreWrite(i, TRUE) /\ BoundedPrivate'
  \/ Tick /\ BoundedPrivate'

SpecPrivate == Init /\ [][NextPrivate]_vars

----------------------------------------------------------------------------
(* Session and room membership *)

\* the member set of room r (empty while the room has no entry)
Members(r) == IF r \in DOMAIN rooms THEN rooms[r] ELSE {}

\* the connections whose session reports r as current room
InRoom(r) == {c \in DOMAIN users : users[c].room = r}

\* C1: for every room, the member set equals exactly the set of connections
\* whose session reports that room as its current room.
C1_MembersMatchSessions == \A r \in RoomNames : Members(r) = InRoom(r)

\* C2: a connection id appears in the member set of at most one room.
C2_AtMostOneRoom ==
  \A c \in Conn : Cardinality({r \in DOMAIN rooms : c \in rooms[r]}) <= 1

----------------------------------------------------------------------------
(* Persistence before broadcast *)

\* the retained log holds the message of store operation n
Retained(n) == \E i \in DOMAIN file.messages : file.messages[i].opn = n

\* C3: no receive_message / private_message event reaches a connection for a
\* message whose store operation failed.
C3_NoBroadcastOfUnpersisted ==
  \A n \in DOMAIN sent : sent[n].rcpt # {} => n \notin failed

\* C10: send_file is persisted first: a file message has been emitted as
\* receive_message only if its store write has completed successfully.
C10_FilePersistedBeforeBroadcast ==
  \A n \in DOMAIN sent : sent[n].msg.isFile => n \in written

----------------------------------------------------------------------------
(* send_message *)

IsAck(e, success) == e.ev = "ack" /\ e.data.success = success

\* C4: a success acknowledgement carries the id of the new message, reaches
\* the sender, and is followed by the receive_message broadcast of that message
\* to every member of the sender's room, the sender included.
C4_AckThenBroadcast ==
  \A i \in DOMAIN out :
    (IsAck(out[i], TRUE) /\ out[i].to \in DOMAIN users) =>
      /\ out[i].rcpt = {out[i].to}
      /\ i + 1 \in DOMAIN out
      /\ out[i + 1].ev = "receive_message"
      /\ out[i + 1].data.opn = out[i].data.opn
      /\ out[i + 1].data.msg.id = out[i].data.messageId
      /\ Members(users[out[i].to].room) \subseteq out[i + 1].rcpt
      /\ out[i].to \in out[i + 1].rcpt

\* C5: a send_message whose store operation fails is answered by a failure
\* acknowledgement and nothing else, is never broadcast, is not retried, and
\* its message is not in the retained log, then or later.
C5_FailedSendLeavesNoTrace ==
  /\ \A i \in DOMAIN out :
       (IsAck(out[i], FALSE) /\ out[i].data.error = "Failed to persist message")
         => (Len(out) = 1 /\ out[i].data.opn \in failed)
  /\ \A n \in failed :
       /\ n \notin DOMAIN sent
       /\ \A i \in DOMAIN ops : ops[i].n # n
       /\ ~Retained(n)

\* C6: a send_message from a connection without a session is answered by a
\* failure acknowledgement only: no store operation starts, nothing is written
\* and no message event is emitted.
C6_UnjoinedSendRejected ==
  [][\A c \in Conn, body \in Bodies, cb \in BOOLEAN :
       (c \notin DOMAIN users /\ SendMessage(c, body, cb)) =>
         /\ ops' = ops /\ nops' = nops
         /\ file' = file /\ messages' = messages /\ written' = written
         /\ sent' = sent
         /\ Len(out') = IF cb THEN 1 ELSE 0
         /\ \A i \in DOMAIN out' : IsAck(out'[i], FALSE) /\ out'[i].rcpt = {c}]_vars

C6_Witness ==
  /\ Len(out) = 1
  /\ IsAck(out[1], FALSE)
  /\ out[1].data.error = "Not authenticated"
  /\ out[1].to \notin DOMAIN users
  /\ ops = <<>> /\ file = DefaultDoc

----------------------------------------------------------------------------
(* The retained log *)

Min(a, b) == IF a < b THEN a ELSE b

\* the sends that completed with a success acknowledgement
Acked == {n \in DOMAIN sent : n \in written}

\* C7: a history query issued after a message was persisted and broadcast
\* returns that message (the model stores far fewer than 100 messages and the
\* query asks for the first 50 of the message's room).
C7_HistoryHasBroadcast ==
  \A i \in DOMAIN out :
    (out[i].ev = "http" /\ out[i].status = 200) =>
      \A n \in out[i].q.after :
        sent[n].msg.roomId = out[i].q.roomId =>
          \E j \in DOMAIN out[i].body.messages : out[i].body.messages[j].opn = n

\* C8: once every send has completed, the retained log holds min(N, 100)
\* messages for N successful sends, all of them acknowledged ones, oldest first.
C8_LogHoldsEverySend ==
  ops = <<>> =>
    /\ Len(file.messages) = Min(Cardinality(Acked), CAP)
    /\ \A i \in DOMAIN file.messages : file.messages[i].opn \in Acked
    /\ \A i, j \in DOMAIN file.messages :
         i < j => file.messages[i].timestamp <= file.messages[j].timestamp

\* C9: the persisted log never holds more than 100 messages, and a step that
\* changes a full persisted log (an insertion) leaves the log without its first
\* message, the others in place and one new message at the end.
C9_CapAndFifo ==
  /\ [](Len(file.messages) <= CAP)
  /\ [][(Len(file.messages) = CAP /\ file'.messages # file.messages) =>
          /\ Len(file'.messages) = CAP
          /\ \A j \in 1..(CAP - 1) : file'.messages[j] = file.messages[j + 1]
          /\ file'.messages[CAP].opn > file.messages[CAP].opn]_vars

----------------------------------------------------------------------------
(* Private messages *)

\* the connections that received an event of the list
Receivers(events) == UNION {events[i].rcpt : i \in DOMAIN events}

\* C11: a private_message from a joined session reaches the sender and the
\* connection identified by `to` and no other connection; when `to` is an open
\* connection both of them receive it.
C11_PrivateReachesTwo ==
  [][\A c \in Conn, to \in Conn \cup RoomNames, body \in Bodies :
       (c \in DOMAIN users /\ PrivateMessage(c, to, body)) =>
         /\ Receivers(out') \subseteq {c, to}
         /\ (to \in Conn /\ sock[to] = "open") => Receivers(out') = {c, to}]_vars

\* C12: a private message is built with isPrivate = true and the sender's
\* current room as roomId, is stored as built, and a history query scoped to
\* that room returns the private messages of that room that the store holds.
C12_PrivateInRoomHistory ==
  /\ [][\A c \in Conn, to \in Conn \cup RoomNames, body \in Bodies :
          (c \in DOMAIN users /\ PrivateMessage(c, to, body)) =>
            LET op == ops'[Len(ops')]
            IN /\ op.kind = "private_message"
               /\ op.arg.msg.isPrivate
               /\ op.arg.msg.roomId = users[c].room]_vars
  /\ [][\A i \in DOMAIN ops :
          (ops[i].kind = "private_message" /\ StoreWrite(i, TRUE)) =>
            file'.messages[Len(file'.messages)] = ops[i].arg.msg]_vars
  /\ [](\A i \in DOMAIN out :
          (out[i].ev = "http" /\ out[i].status = 200) =>
            \A j \in DOMAIN file.messages :
              (file.messages[j].isPrivate
               /\ file.messages[j].roomId = out[i].q.roomId) =>
                \E k \in DOMAIN out[i].body.messages :
                  out[i].body.messages[k] = file.messages[j])

C12_Witness ==
  \E i \in DOMAIN out :
    /\ out[i].ev = "http" /\ out[i].status = 200
    /\ \E k \in DOMAIN out[i].body.messages :
         /\ out[i].body.messages[k].isPrivate
         /\ out[i].body.messages[k].roomId = out[i].q.roomId
         /\ out[i].body.messages[k].roomId = "dev"

----------------------------------------------------------------------------
(* Reactions *)

\* user u holds reaction r on the message with this id in document doc
Holds(doc, messageId, u, r) ==
  \E i \in DOMAIN doc.messages :
    /\ doc.messages[i].id = messageId
    /\ r \in DOMAIN doc.messages[i].reactions
    /\ \E k \in DOMAIN doc.messages[i].reactions[r] :
         doc.messages[i].reactions[r][k] = u

\* the reaction state of every message of a document
ReactionState(doc) == [i \in DOMAIN doc.messages |-> doc.messages[i].reactions]

\* C13: addReaction of a reaction the user already holds and removeReaction
\* of one the user does not hold leave the document as it was read, and no
\* user id is listed twice under one symbol of a stored message.
C13_ReactionSetSemantics ==
  /\ [][\A i \in DOMAIN ops :
          (/\ ops[i].kind = "add_reaction"
           /\ StoreRead(i, "ok")
           /\ Holds(file, ops[i].arg.messageId, ops[i].conn, ops[i].arg.reaction))
          => /\ i \in DOMAIN ops' /\ ops'[i].n = ops[i].n
             /\ ops'[i].data = file]_vars
  /\ [][\A i \in DOMAIN ops :
          (/\ ops[i].kind = "remove_reaction"
           /\ StoreRead(i, "ok")
           /\ ~Holds(file, ops[i].arg.messageId, ops[i].conn, ops[i].arg.reaction))
          => /\ file' = file
             /\ \A j \in DOMAIN ops' :
                  ops'[j].n = ops[i].n => ops'[j].data = file]_vars
  /\ [](\A i \in DOMAIN file.messages :
          \A r \in DOMAIN file.messages[i].reactions :
            \A a, b \in DOMAIN file.messages[i].reactions[r] :
              a # b => file.messages[i].reactions[r][a]
                         # file.messages[i].reactions[r][b])

C13_Witness ==
  \E i \in DOMAIN ops :
    /\ ops[i].kind = "add_reaction"
    /\ ops[i].stage = "write"
    /\ Holds(file, ops[i].arg.messageId, ops[i].conn, ops[i].arg.reaction)
    /\ ops[i].data = file

\* addReaction followed by removeReaction for the same (message, user, symbol)
RoundTrip(doc, messageId, u, r) ==
  RemoveReactionDoc(AddReactionDoc(doc, messageId, u, r), messageId, u, r)

\* C14 as stated: for every stored message, user and symbol and every reaction
\* state, addReaction followed by removeReaction restores the reaction state.
C14_RoundTripRestores ==
  \A id \in ReactIds, u \in Conn, r \in Reactions :
    ReactionState(RoundTrip(file, id, u, r)) = ReactionState(file)

\* C14 amended: the round trip restores the reaction state when the user did
\* not hold the reaction before; when the user held it, the round trip leaves
\* the state that removeReaction alone leaves, without the user's reaction.
C14_RoundTripUnlessHeld ==
  \A id \in ReactIds, u \in Conn, r \in Reactions :
    /\ ~Holds(file, id, u, r) =>
         ReactionState(RoundTrip(file, id, u, r)) = ReactionState(file)
    /\ Holds(file, id, u, r) =>
         /\ ReactionState(RoundTrip(file, id, u, r))
              = ReactionState(RemoveReactionDoc(file, id, u, r))
         /\ ~Holds(RoundTrip(file, id, u, r), id, u, r)

\* a stored message carries an empty reactions object (an add and a remove
\* have been persisted) and another reaction is held
C14_Witness ==
  /\ \E i \in DOMAIN file.messages :
       /\ file.messages[i].hasReactions
       /\ file.messages[i].reactions = EmptyObj
  /\ written # {}
  /\ \E i \in DOMAIN ops :
       /\ ops[i].kind = "add_reaction" /\ ops[i].stage = "read"
       /\ ~Holds(file, ops[i].arg.messageId, ops[i].conn, ops[i].arg.reaction)

\* C16: a reaction_added / reaction_removed delta is emitted only by the step
\* that persists the mutation, and it reaches the members of the sender's
\* current room.
C16_ReactionPersistedThenDelta ==
  [][\A i \in DOMAIN out' :
       out'[i].ev \in {"reaction_added", "reaction_removed"} =>
         /\ written' # written
         /\ out'[i].data.userId \in DOMAIN users
         /\ out'[i].rcpt = Members(users[out'[i].data.userId].room)]_vars

----------------------------------------------------------------------------
(* Read receipts *)

\* the receipts of message id in a receipt map
ReceiptsOf(receipts, id) == IF id \in DOMAIN receipts THEN receipts[id] ELSE EmptyObj

\* C15: markMessageRead leaves one entry for the user under the message, with
\* the time of this call, also when the user had an entry; the entries of
\* other users and of other messages, and the messages, are as read; the
\* write stores that document.
C15_MarkReadUpserts ==
  /\ [][\A i \in DOMAIN ops :
          (ops[i].kind = "message_read" /\ StoreRead(i, "ok")) =>
            /\ i \in DOMAIN ops' /\ ops'[i].n = ops[i].n
            /\ LET id == ops[i].arg.messageId
                   u == ops[i].conn
                   old == file.readReceipts
                   new == ops'[i].data.readReceipts
               IN /\ DOMAIN new = DOMAIN old \cup {id}
                  /\ DOMAIN new[id] = DOMAIN ReceiptsOf(old, id) \cup {u}
                  /\ new[id][u] = now
                  /\ \A v \in DOMAIN new[id] \ {u} : new[id][v] = old[id][v]
                  /\ \A other \in DOMAIN new \ {id} : new[other] = old[other]
                  /\ ops'[i].data.messages = file.messages]_vars
  /\ [][\A i \in DOMAIN ops :
          (ops[i].kind = "message_read" /\ StoreWrite(i, TRUE)) =>
            file' = ops[i].data]_vars

\* a second markMessageRead of the same user and message holds a later time
C15_Witness ==
  \E i \in DOMAIN ops :
    /\ ops[i].kind = "message_read"
    /\ ops[i].stage = "write"
    /\ ops[i].arg.messageId \in DOMAIN file.readReceipts
    /\ ops[i].conn \in DOMAIN file.readReceipts[ops[i].arg.messageId]
    /\ file.readReceipts[ops[i].arg.messageId][ops[i].conn]
         < ops[i].data.readReceipts[ops[i].arg.messageId][ops[i].conn]
    /\ Cardinality(DOMAIN file.readReceipts[ops[i].arg.messageId]) = 2

\* C17: the read_receipt delta of a persisted message_read reaches the
\* members of the room the marking user is in, and nobody else.
C17_ReceiptToMarkersRoom ==
  [][\A i \in DOMAIN ops :
       (/\ ops[i].kind = "message_read"
        /\ StoreWrite(i, TRUE)
        /\ ops[i].conn \in DOMAIN users) =>
         /\ Len(out') = 1
         /\ out'[1].ev = "read_receipt"
         /\ out'[1].rcpt = Members(users[ops[i].conn].room)]_vars

----------------------------------------------------------------------------
(* History queries *)

CasePairs ==
  {<<"A", "a">>, <<"B", "b">>, <<"H", "h">>, <<"I", "i">>, <<"L", "l">>,
   <<"O", "o">>}

SameLetter(a, b) == a = b \/ <<a, b>> \in CasePairs \/ <<b, a>> \in CasePairs

\* str contains sub, letter case ignored
ContainsCI(str, sub) ==
  \E k \in 0..(Len(str) - Len(sub)) :
    \A j \in 1..Len(sub) : SameLetter(str[k + j], sub[j])

\* message m belongs to the room of query q and matches its search
Passes(m, q) ==
  /\ m.roomId = q.roomId \/ (m.roomId = NoRoom /\ q.roomId = "general")
  /\ \/ q.search = NoSearch
     \/ ContainsCI(m.message, q.search)
     \/ ContainsCI(m.sender, q.search)

\* the positions of the stored messages that pass the filters of q
Matching(q) == {j \in DOMAIN file.messages : Passes(file.messages[j], q)}

Max(a, b) == IF a > b THEN a ELSE b

\* the successful responses among the events of the last step
Responses == {i \in DOMAIN out : out[i].ev = "http" /\ out[i].status = 200}

\* C18: the messages of a response are stored messages that pass the room and
\* search filters, each once, newest first, and they are the positions
\* offset .. offset + limit - 1 of the newest-first order of all that pass.
C18_QueryReturnsPage ==
  \A i \in Responses :
    LET q == out[i].q
        page == out[i].body.messages
        match == Matching(q)
    IN /\ Len(page) = Max(0, Min(q.limit, Cardinality(match) - q.offset))
       /\ \A k \in DOMAIN page : \E j \in match : file.messages[j] = page[k]
       /\ \A k, l \in DOMAIN page :
            k < l => /\ page[k] # page[l]
                     /\ page[k].timestamp >= page[l].timestamp
       /\ \A k \in DOMAIN page :
            /\ Cardinality({j \in match :
                   file.messages[j].timestamp > page[k].timestamp})
                 <= q.offset + k - 1
            /\ q.offset + k
                 <= Cardinality({j \in match :
                      file.messages[j].timestamp >= page[k].timestamp})

C18_Witness ==
  \E i \in Responses :
    /\ out[i].q.search # NoSearch
    /\ out[i].q.offset = 1
    /\ Len(out[i].body.messages) = 2
    /\ Cardinality(Matching(out[i].q)) = 4
    /\ Len(file.messages) = 5
    /\ \E k \in 1..2 : out[i].body.messages[k].roomId = NoRoom

\* C19: total is the number of messages that pass the filters, and hasMore
\* is true exactly when offset + limit is less than that number.
C19_TotalAndHasMore ==
  \A i \in Responses :
    /\ out[i].body.total = Cardinality(Matching(out[i].q))
    /\ out[i].body.hasMore
         <=> (out[i].q.offset + out[i].q.limit < Cardinality(Matching(out[i].q)))

C19_Witness ==
  \E i \in Responses :
    /\ ~out[i].body.hasMore
    /\ out[i].q.offset + out[i].q.limit = out[i].body.total
    /\ out[i].body.total = PageSize
    /\ out[i].body.total < Len(file.messages)

----------------------------------------------------------------------------
(* Joining *)

\* C20: user_join gives the connection a session with the room as current
\* room, puts it into the room's member set, sends user_joined,
\* user_status(online) and the refreshed member list to the members of the
\* room, and room_joined with the room name to the joining connection.
C20_JoinAnnounced ==
  [][\A c \in Conn, room \in RoomNames :
       UserJoin(c, room) =>
         /\ c \in DOMAIN users' /\ users'[c].room = room
         /\ room \in DOMAIN rooms' /\ c \in rooms'[room]
         /\ \A ev \in {"user_joined", "user_status", "user_list"} :
              \E i \in DOMAIN out' :
                /\ out'[i].ev = ev
                /\ out'[i].to = room
                /\ out'[i].rcpt = rooms'[room]
         /\ \E i \in DOMAIN out' :
              out'[i].ev = "user_status" /\ out'[i].data.status = "online"
         /\ \E i \in DOMAIN out' :
              out'[i].ev = "user_list" /\ out'[i].data.members = rooms'[room]
         /\ \E i \in DOMAIN out' :
              /\ out'[i].ev = "room_joined"
              /\ out'[i].data.room = room
              /\ out'[i].rcpt = {c}]_vars

----------------------------------------------------------------------------
(* Switching rooms *)

\* C21: switch_room of a joined connection moves it from the old room's
\* member set to the new one's in one step, sends user_left and the member
\* list to the remaining members of the old room, user_joined and the member
\* list to the members of the new room, and registers an unknown room in the
\* available-room list and starts persisting it.
C21_SwitchMovesAndAnnounces ==
  [][\A c \in Conn, newRoom \in RoomNames :
       (c \in DOMAIN users /\ users[c].room # newRoom /\ SwitchRoom(c, newRoom)) =>
         LET oldRoom == users[c].room
         IN /\ users'[c].room = newRoom
            /\ c \notin rooms'[oldRoom]
            /\ c \in rooms'[newRoom]
            /\ \A ev \in {"user_left", "user_list"} :
                 \E i \in DOMAIN out' :
                   /\ out'[i].ev = ev /\ out'[i].to = oldRoom
                   /\ out'[i].rcpt = rooms'[oldRoom]
            /\ \A ev \in {"user_joined", "user_list"} :
                 \E i \in DOMAIN out' :
                   /\ out'[i].ev = ev /\ out'[i].to = newRoom
                   /\ out'[i].rcpt = rooms'[newRoom]
            /\ newRoom \in Range(availableRooms')
            /\ newRoom \notin Range(availableRooms) =>
                 \E i \in DOMAIN ops' :
                   ops'[i].kind = "addRoom" /\ ops'[i].arg.room = newRoom]_vars

\* C22: a switch_room of a joined connection leaves it without typing entry.
C22_SwitchClearsTyping ==
  [][\A c \in Conn, newRoom \in RoomNames :
       (c \in DOMAIN users /\ SwitchRoom(c, newRoom)) => c \notin typingUsers']_vars

----------------------------------------------------------------------------
(* Leaving *)

\* C23: the disconnect handler of a joined connection removes its session,
\* its membership of its room and its typing entry, whatever store operations
\* are in flight, and sends user_left, user_status(offline) and the updated
\* member list to the members of the room it was in.
C23_DisconnectCleansUp ==
  [][\A c \in Conn :
       (c \in DOMAIN users /\ Disconnect(c)) =>
         LET room == users[c].room
         IN /\ c \notin DOMAIN users'
            /\ c \notin rooms'[room]
            /\ c \notin typingUsers'
            /\ \A ev \in {"user_left", "user_status", "user_list"} :
                 \E i \in DOMAIN out' :
                   /\ out'[i].ev = ev /\ out'[i].to = room
                   /\ out'[i].rcpt = rooms'[room]
            /\ \E i \in DOMAIN out' :
                 out'[i].ev = "user_status" /\ out'[i].data.status = "offline"
            /\ \E i \in DOMAIN out' :
                 out'[i].ev = "user_list" /\ out'[i].data.members = rooms'[room]]_vars

----------------------------------------------------------------------------
(* Typing *)

\* the display names of the connections that are in room r and typing
TypingIn(r) == {JwtUsername(x) : x \in {y \in typingUsers \cap InRoom(r) : TRUE}}

\* C30: a typing_users event is addressed to one room, reaches only
\* connections whose session is in that room, and lists only display names
\* of connections that are in that room and typing.
C30_TypingScopedToRoom ==
  \A i \in DOMAIN out :
    out[i].ev = "typing_users" =>
      /\ out[i].to \in RoomNames
      /\ out[i].rcpt \subseteq InRoom(out[i].to)
      /\ out[i].data.names \subseteq TypingIn(out[i].to)

----------------------------------------------------------------------------
(* Authentication *)

\* C24: a connection attempt without a valid token is answered by an
\* authentication error and stays rejected; a rejected connection never has a
\* session, is in no member set and in no socket.io room.
C24_RejectedNeverJoins ==
  /\ [][\A c \in Conn :
          Connect(c, FALSE) =>
            /\ sock'[c] = "rejected"
            /\ Len(out') = 1
            /\ out'[1].ev = "connect_error" /\ out'[1].rcpt = {c}
            /\ UNCHANGED <<users, rooms, sio>>]_vars
  /\ [](\A c \in Conn :
          sock[c] = "rejected" =>
            /\ c \notin DOMAIN users
            /\ \A r \in DOMAIN rooms : c \notin rooms[r]
            /\ sio[c] = {})
  /\ [][\A c \in Conn : sock[c] = "rejected" => sock'[c] = "rejected"]_vars

C24_Witness ==
  /\ sock["c1"] = "rejected"
  /\ "c2" \in DOMAIN users
  /\ users["c2"].room = "dev"
  /\ Members("dev") = {"c2"}

----------------------------------------------------------------------------
(* The session guard *)

\* C25: a messaging event of a connection without a session changes no
\* session, room, typing or store state, starts no store operation, and emits
\* nothing to another connection.
C25_NoSessionNoEffect ==
  [][\A c \in Conn :
       (c \notin DOMAIN users /\ Messaging(c)) =>
         /\ UNCHANGED <<users, rooms, sio, typingUsers, availableRooms>>
         /\ UNCHANGED <<file, DEFAULT, messages, ops, nops, sent, written>>
         /\ Receivers(out') \subseteq {c}]_vars

C25_Witness ==
  /\ "c1" \notin DOMAIN users
  /\ "c2" \in DOMAIN users
  /\ Len(out) = 1 /\ IsAck(out[1], FALSE) /\ out[1].to = "c1"
  /\ Len(ops) = 2
  /\ \A i \in DOMAIN ops : ops[i].conn = "c2"

----------------------------------------------------------------------------
(* Validation of client input *)

\* C26: a user_join with an empty display name creates no session and no room
\* membership, and a send_message with an empty body starts no store
\* operation; no message with an empty body is ever stored or emitted.
C26_EmptyInputRejected ==
  /\ [][\A c \in Conn :
          /\ UserJoinAs(c, <<>>, "general") => UNCHANGED <<users, rooms, sio>>
          /\ (\E cb \in BOOLEAN : SendMessage(c, <<>>, cb)) =>
                UNCHANGED <<ops, nops>>]_vars
  /\ [](\A i \in DOMAIN file.messages : file.messages[i].message # <<>>)
  /\ [](\A i \in DOMAIN messages : messages[i].message # <<>>)
  /\ [](\A i \in DOMAIN out :
          out[i].ev = "receive_message" => out[i].data.msg.message # <<>>)

----------------------------------------------------------------------------
(* Rooms *)

\* C27: a room name that is in the room directory, in the available-room
\* list or in the persisted rooms list is still there after every step.
C27_RoomsNeverDeleted ==
  [][/\ DOMAIN rooms \subseteq DOMAIN rooms'
     /\ Range(availableRooms) \subseteq Range(availableRooms')
     /\ Range(file.rooms) \subseteq Range(file'.rooms)]_vars

----------------------------------------------------------------------------
(* Store failures *)

\* every message, room and read receipt of document f is in document g
Kept(f, g) ==
  /\ {m.opn : m \in Range(f.messages)} \subseteq {m.opn : m \in Range(g.messages)}
  /\ Range(f.rooms) \subseteq Range(g.rooms)
  /\ \A id \in DOMAIN f.readReceipts :
       /\ id \in DOMAIN g.readReceipts
       /\ DOMAIN f.readReceipts[id] \subseteq DOMAIN g.readReceipts[id]

\* C28: a store operation whose read or write failed leaves in the store
\* every message, room and read receipt that was there before, at the failure
\* and when the operation goes on to write.
C28_FailureKeepsStore ==
  [][\A i \in DOMAIN ops :
       (\/ StoreRead(i, "default")
        \/ StoreRead(i, "throw")
        \/ StoreWrite(i, FALSE)
        \/ ops[i].aliased /\ StoreWrite(i, TRUE)) => Kept(file, file')]_vars


\* C29: a history query whose read of the store document failed is answered
\* with HTTP 500 and with nothing else.
C29_QueryFailureIs500 ==
  [][\A i \in DOMAIN ops :
       (/\ ops[i].kind = "getMessages"
        /\ StoreRead(i, "default") \/ StoreRead(i, "throw")) =>
         /\ Len(out') = 1
         /\ out'[1].ev = "http"
         /\ out'[1].status = 500]_vars

----------------------------------------------------------------------------
(* Acknowledgements *)

\* store operation n is a send_message with a callback, in flight
Pending(n) ==
  \E j \in DOMAIN ops :
    ops[j].n = n /\ ops[j].kind = "send_message" /\ ops[j].arg.cb

\* the acknowledgements of store operation n among the events
AcksOf(events, n) ==
  {i \in DOMAIN events : events[i].ev = "ack" /\ events[i].data.opn = n}

\* C31 as stated: every send_message with a callback that is in flight is
\* eventually acknowledged to its sender, who receives the acknowledgement.
C31_AckReceived ==
  \A n \in 1..LiveOps :
    Pending(n) ~> (\E i \in AcksOf(out, n) : out[i].rcpt = {out[i].to})

\* C31 amended: the callback of every send_message in flight is eventually
\* called, exactly once and in the step that settles its store operation; the
\* acknowledgement reaches the sender if and only if its connection is still
\* open.
C31_AckIssuedOnce ==
  /\ \A n \in 1..LiveOps : Pending(n) ~> (AcksOf(out, n) # {})
  /\ [][\A n \in 1..LiveOps :
          /\ Cardinality(AcksOf(out', n)) <= 1
          /\ AcksOf(out', n) # {} => Pending(n) /\ ~Pending(n)'
          /\ \A i \in AcksOf(out', n) :
               out'[i].rcpt = IF sock'[out'[i].to] = "open" THEN {out'[i].to} ELSE {}
          /\ Pending(n)' => n > nops \/ Pending(n)]_vars

C31_Witness ==
  /\ sock["c1"] = "closed"
  /\ \E n \in 1..LiveOps : \E i \in AcksOf(out, n) : out[i].rcpt = {}
  /\ ops # <<>>

----------------------------------------------------------------------------
(* The read-modify-write cycle of the store *)

\* the document a store operation holds between its readData and its writeData
Held(op) == IF op.aliased THEN DEFAULT ELSE op.data

\* document doc does not have the change of store operation op
Lacks(doc, op) ==
  IF op.kind \in AddMessageKinds
  THEN \A m \in Range(doc.messages) : m.opn # op.n
  ELSE StoreMutate(op, doc, now) # doc

\* C32: of two mutating store operations that have both read the document,
\* neither holding the other's change, each write completes without error
\* and puts the writer's document in the store: the store has the writer's
\* change and lacks the other operation's change, also when the other
\* operation wrote first.
C32_LaterWriteOverwrites ==
  [][\A i, j \in DOMAIN ops :
       (/\ i # j
        /\ ops[i].stage = "write" /\ ops[j].stage = "write"
        /\ Lacks(Held(ops[i]), ops[j]) /\ Lacks(Held(ops[j]), ops[i])
        /\ StoreWrite(i, TRUE)) =>
         /\ file' = Held(ops[i])
         /\ ~Lacks(file', ops[i]) /\ Lacks(file', ops[j])
         /\ written' = written \cup {ops[i].n} /\ failed' = failed
         /\ \A e \in Range(out') : e.ev # "ack" \/ e.data.success
         /\ \E k \in DOMAIN ops' : ops'[k] = ops[j]]_vars
  /\ [][\A i \in DOMAIN ops :
          (Len(ops) = 1 /\ StoreWrite(i, TRUE)) =>
            /\ file' = Held(ops[i])
            /\ failed' = failed
            /\ \A n \in written, m \in Range(file.messages) :
                 (m.opn = n /\ \A h \in Range(Held(ops[i]).messages) : h.opn # n)
                   => \A g \in Range(file'.messages) : g.opn # n]_vars

\* both operations were written without error, the reaction first: the store
\* has the new message and no reaction
C32_Witness ==
  /\ ops = <<>> /\ written = {1, 2} /\ failed = {}
  /\ Len(file.messages) = StoredMessages + 1
  /\ Len(messages) = StoredMessages + 1
  /\ \A i \in DOMAIN file.messages : ~file.messages[i].hasReactions
  /\ \E i \in DOMAIN out : out[i].ev = "receive_message"

----------------------------------------------------------------------------
(* Stored messages *)

\* C33: no two messages of the in-memory log, and no two messages of the
\* stored log, have the same id.
C33_UniqueIds ==
  /\ \A i, j \in DOMAIN messages : messages[i].id = messages[j].id => i = j
  /\ \A i, j \in DOMAIN file.messages :
       file.messages[i].id = file.messages[j].id => i = j


\* a message without its reactions
Core(m) ==
  [opn |-> m.opn, id |-> m.id, sender |-> m.sender, senderId |-> m.senderId,
   roomId |-> m.roomId, message |-> m.message, timestamp |-> m.timestamp,
   isFile |-> m.isFile, isPrivate |-> m.isPrivate]

\* m and n are the same message, before and after a step: the message was
\* stored by the same operation under the same id
SameMessage(m, n) == m.opn = n.opn /\ m.id = n.id

\* C34: a message that is in the stored log (or in the in-memory log) before
\* and after a step has the same id, sender, senderId, roomId, body,
\* timestamp, file and isPrivate fields after the step as before it.
C34_ImmutableButReactions ==
  [][/\ \A m \in Range(file.messages), n \in Range(file'.messages) :
          SameMessage(m, n) => Core(m) = Core(n)
     /\ \A m \in Range(messages), n \in Range(messages') :
          SameMessage(m, n) => Core(m) = Core(n)]_vars

\* three store operations were written, and a stored message got a reaction
\* and lost it again: its other fields are as they were
C34_Witness ==
  /\ written = {1, 2, 3}
  /\ \E i \in DOMAIN file.messages :
       /\ file.messages[i].hasReactions
       /\ "+1" \notin DOMAIN file.messages[i].reactions
       /\ Core(file.messages[i]) = Core(OldLog(StoredMessages)[1])


\* C35: the steps of an add_reaction, remove_reaction or message_read that
\* names a message id that is not stored leave the stored messages and the
\* stored read receipts as they were and emit no acknowledgement or error.
C35_UnknownIdChangesNothing ==
  [][\A i \in DOMAIN ops :
       (/\ ops[i].kind \in {"add_reaction", "remove_reaction", "message_read"}
        /\ FindMessage(file, ops[i].arg.messageId) = 0
        /\ StoreRead(i, "ok") \/ StoreWrite(i, TRUE)) =>
         /\ file'.messages = file.messages
         /\ file'.readReceipts = file.readReceipts
         /\ \A e \in Range(out') : e.ev \notin {"ack", "error"}]_vars

----------------------------------------------------------------------------
(* Delivery of room messages *)

\* C36: every receive_message event is addressed to the room named by the
\* roomId of its message and received only by members of that room.
C36_DeliveredToOwnRoom ==
  \A i \in DOMAIN out :
    out[i].ev = "receive_message" =>
      /\ out[i].to = out[i].data.msg.roomId
      /\ out[i].rcpt \subseteq Members(out[i].data.msg.roomId)

----------------------------------------------------------------------------
(* Delta broadcasts *)

\* the event that announces the change of a store operation
Delta(kind) ==
  CASE kind = "add_reaction" -> "reaction_added"
    [] kind = "remove_reaction" -> "reaction_removed"
    [] kind = "message_read" -> "read_receipt"
    [] OTHER -> "none"

\* C37: when the store write of an add_reaction, remove_reaction or
\* message_read succeeds, the handler goes on to emit the corresponding delta
\* event for the message (the continuation runs in the step that settles the
\* write, so an event that is not emitted then is never emitted).
C37_PersistedThenDelta ==
  [][\A i \in DOMAIN ops :
       (Delta(ops[i].kind) # "none" /\ StoreWrite(i, TRUE)) =>
         \E k \in DOMAIN out' :
           /\ out'[k].ev = Delta(ops[i].kind)
           /\ out'[k].data.messageId = ops[i].arg.messageId]_vars

----------------------------------------------------------------------------
(* The client's copy of the reactions (client/src/socket/socket.js) *)

\* msg.reactions?.[reaction] || []
ReactionList(m, r) == IF r \in DOMAIN m.reactions THEN m.reactions[r] ELSE <<>>

\* onReactionAdded: the user id is appended to the list of the symbol
OnReactionAdded(msgs, e) ==
  [k \in DOMAIN msgs |->
     IF msgs[k].id = e.messageId
     THEN [msgs[k] EXCEPT !.reactions =
             Put(@, e.reaction, Append(ReactionList(msgs[k], e.reaction), e.userId))]
     ELSE msgs[k]]

\* onReactionRemoved: the user id is filtered out of the list of the symbol
OnReactionRemoved(msgs, e) ==
  [k \in DOMAIN msgs |->
     IF msgs[k].id = e.messageId
     THEN [msgs[k] EXCEPT !.reactions =
             Put(@, e.reaction,
                 SelectSeq(ReactionList(msgs[k], e.reaction),
                           LAMBDA id : id # e.userId))]
     ELSE msgs[k]]

\* the client's messages after it has received the events, in order
RECURSIVE ClientReceive(_, _)
ClientReceive(msgs, events) ==
  IF events = <<>> THEN msgs
  ELSE LET e == Head(events)
           next == CASE e.ev = "reaction_added" -> OnReactionAdded(msgs, e.data)
                     [] e.ev = "reaction_removed" -> OnReactionRemoved(msgs, e.data)
                     [] OTHER -> msgs
       IN ClientReceive(next, Tail(events))

\* for every message and symbol the client holds the user ids the server has
\* stored, none of them twice
Agree(client, server) ==
  /\ DOMAIN client = DOMAIN server
  /\ \A k \in DOMAIN server, r \in Reactions :
       /\ Range(ReactionList(client[k], r)) = Range(ReactionList(server[k], r))
       /\ Cardinality(Range(ReactionList(client[k], r)))
            = Len(ReactionList(client[k], r))

\* C38: a client that holds the stored reaction state when an add_reaction or
\* remove_reaction settles, and receives the events the server emits for it,
\* holds the stored reaction state afterwards, with no user id twice.
C38_ClientAgrees ==
  [][\A i \in DOMAIN ops :
       (/\ ops[i].kind \in {"add_reaction", "remove_reaction"}
        /\ StoreRead(i, "ok") \/ StoreWrite(i, TRUE)
        /\ Len(ops') < Len(ops)) =>
         Agree(ClientReceive(file.messages, out'), file'.messages)]_vars

----------------------------------------------------------------------------
(* Typing entries *)

\* C39: every connection that has a typing entry has a session.
C39_TypingHasSession == typingUsers \subseteq DOMAIN users

\* a typing connection has disconnected while another one is still typing
C39_Witness ==
  /\ sock["c1"] = "closed"
  /\ "c1" \notin DOMAIN users
  /\ typingUsers = {"c2"}
  /\ \E i \in DOMAIN out :
       out[i].ev = "typing_users" /\ out[i].data.names = {JwtUsername("c2")}

----------------------------------------------------------------------------
(* Namespaces *)

RoomEvents ==
  {"user_list", "user_joined", "user_left", "user_status", "receive_message",
   "typing_users", "read_receipt", "reaction_added", "reaction_removed"}

\* C40: every room-scoped event is emitted on the namespace on which the
\* server accepts connections, which is the namespace the clients connect to
\* (only the sockets of the namespace of an emit can receive it).
C40_EmittedOnChatNamespace ==
  \A i \in DOMAIN out :
    out[i].ev \in RoomEvents =>
      /\ out[i].ns = ChatNamespace
      /\ out[i].ns = ClientNamespace

====
